---------------------------- MODULE Spec2Model ----------------------------
(***************************************************************************)
(* Model of src/server.js: the Stock Data API server.                      *)
(*                                                                         *)
(*   - the two process-wide maps loaded by loadData,                       *)
(*   - the time frame utilities getTimeFrameDate, isValidTimeFrame and     *)
(*     filterByTimeFrame (the "Window Selector"),                          *)
(*   - calculateStatistics (the "Statistics Engine"),                      *)
(*   - the validateTimeFrame middleware and the three /api/stock routes.   *)
(*                                                                         *)
(* Instants are whole hours since 1970-01-01T00:00Z.  The server's local   *)
(* time zone is UTC, so "local midnight" and "UTC midnight" coincide.      *)
(* Strings that the code inspects character by character (the timeframe    *)
(* and type query parameters) are sequences of one-character strings.      *)
(* Arithmetic on numbers is exact (rational), results of Math.round(x*100) *)
(* / 100 are carried as integers counting hundredths.                      *)
(***************************************************************************)
EXTENDS Integers, Sequences, FiniteSets, TLC

VARIABLES
    files,              \* content of data/ratios_by_co_code.json and data/ohlc_by_co_code.json
    ratios_by_co_code,  \* server.js:21
    ohlc_by_co_code,    \* server.js:22
    now,                \* the clock read by new Date()
    pc,                 \* where the process / the request in flight is
    req,                \* req.path and req.query of the request in flight
    res,                \* the response written for it
    nres,               \* how many responses were written for it
    ran,                \* which of validateTimeFrame / the route handler ran for it
    selected,           \* the filterByTimeFrame invocations made for it
    values,             \* argument of calculateStatistics (statistics engine runs)
    statistics,         \* its result
    timeFrame,          \* argument of getTimeFrameDate (resolver runs)
    startDate           \* the instant its thunk yields

vars == <<files, ratios_by_co_code, ohlc_by_co_code, now, pc, req, res, nres,
          ran, selected, values, statistics, timeFrame, startDate>>

-----------------------------------------------------------------------------
(* Bounds of the model                                                     *)

\* total number of records in the two data files (server runs)
MaxRecords == 2
\* length of a company series handed to filterByTimeFrame directly
MaxSeries == 3
\* length of the value sequence handed to calculateStatistics
MaxLen == 4

-----------------------------------------------------------------------------
(* JavaScript values                                                       *)

\* undefined: an absent query parameter, a missing record field
Undefined == <<"undefined">>
\* null
Null == <<>>
\* the empty string
EmptyString == <<>>

Range(s) == {s[i] : i \in 1..Len(s)}

\* `!x` for a query parameter: undefined and "" are falsy
Falsy(s) == s = Undefined \/ s = EmptyString

UpperChar(c) ==
    CASE c = "a" -> "A" [] c = "l" -> "L" [] c = "w" -> "W" [] c = "m" -> "M"
      [] c = "y" -> "Y" [] c = "p" -> "P" [] c = "e" -> "E" [] c = "z" -> "Z"
      [] OTHER -> c

LowerChar(c) ==
    CASE c = "A" -> "a" [] c = "L" -> "l" [] c = "W" -> "w" [] c = "M" -> "m"
      [] c = "Y" -> "y" [] c = "P" -> "p" [] c = "E" -> "e" [] c = "Z" -> "z"
      [] OTHER -> c

\* String.prototype.toUpperCase
toUpperCase(s) == [i \in 1..Len(s) |-> UpperChar(s[i])]

\* String.prototype.toLowerCase
toLowerCase(s) == [i \in 1..Len(s) |-> LowerChar(s[i])]

\* `s?.toUpperCase()`: undefined stays undefined
OptToUpperCase(s) == IF s = Undefined THEN Undefined ELSE toUpperCase(s)

-----------------------------------------------------------------------------
(* Date: the proleptic Gregorian calendar, as the Date built-in keeps it   *)

HoursPerDay == 24

\* day number (days since 1970-01-01) of the civil date y-m-d, m in 1..12;
\* d may lie outside the month (the day number just runs on)
DaysFromCivil(y, m, d) ==
    LET yy  == IF m <= 2 THEN y - 1 ELSE y
        era == yy \div 400
        yoe == yy - era * 400
        mp  == IF m > 2 THEN m - 3 ELSE m + 9
        doy == (153 * mp + 2) \div 5 + d - 1
        doe == yoe * 365 + yoe \div 4 - yoe \div 100 + doy
    IN  era * 146097 + doe - 719468

\* the civil date of a day number: [year, month (0..11, as getMonth), date]
CivilFromDays(z0) ==
    LET z   == z0 + 719468
        era == z \div 146097
        doe == z - era * 146097
        yoe == (doe - doe \div 1460 + doe \div 36524 - doe \div 146096) \div 365
        doy == doe - (365 * yoe + yoe \div 4 - yoe \div 100)
        mp  == (5 * doy + 2) \div 153
        d   == doy - (153 * mp + 2) \div 5 + 1
        m   == IF mp < 10 THEN mp + 3 ELSE mp - 9
        y   == yoe + era * 400 + (IF m <= 2 THEN 1 ELSE 0)
    IN  [year |-> y, month |-> m - 1, date |-> d]

getFullYear(t) == CivilFromDays(t \div HoursPerDay).year
getMonth(t) == CivilFromDays(t \div HoursPerDay).month
getDate(t) == CivilFromDays(t \div HoursPerDay).date

\* new Date(year, monthIndex, day): midnight of that day; a monthIndex outside
\* 0..11 carries into the year, a day outside the month carries into the
\* neighbouring months
NewDateYMD(year, monthIndex, day) ==
    LET y == year + monthIndex \div 12
        m == monthIndex % 12
    IN  (DaysFromCivil(y, m + 1, 1) + day - 1) * HoursPerDay

\* a record's date field: "YYYY-MM-DD" carried as <<YYYY, MM, DD>>, or undefined
IsDateString(s) ==
    /\ Len(s) = 3
    /\ s[2] \in 1..12
    /\ s[3] \in 1..31

\* new Date(string) yields NaN ("Invalid Date") unless the string is a date
IsNaNDate(s) == ~IsDateString(s)

\* new Date("YYYY-MM-DD"): midnight UTC of that day (only for strings that parse)
ParseDate(s) == DaysFromCivil(s[1], s[2], s[3]) * HoursPerDay

-----------------------------------------------------------------------------
(* Time frame utility functions                                            *)

Key1W == <<"1", "W">>
Key1M == <<"1", "M">>
Key3M == <<"3", "M">>
Key6M == <<"6", "M">>
Key1Y == <<"1", "Y">>
Key2Y == <<"2", "Y">>
KeyALL == <<"A", "L", "L">>

\* server.js:47-55, each thunk evaluated against `now`
timeFrameMap(t) ==
    [k \in {Key1W, Key1M, Key3M, Key6M, Key1Y, Key2Y, KeyALL} |->
        CASE k = Key1W -> t - 7 * 24
          [] k = Key1M -> NewDateYMD(getFullYear(t), getMonth(t) - 1, getDate(t))
          [] k = Key3M -> NewDateYMD(getFullYear(t), getMonth(t) - 3, getDate(t))
          [] k = Key6M -> NewDateYMD(getFullYear(t), getMonth(t) - 6, getDate(t))
          [] k = Key1Y -> NewDateYMD(getFullYear(t) - 1, getMonth(t), getDate(t))
          [] k = Key2Y -> NewDateYMD(getFullYear(t) - 2, getMonth(t), getDate(t))
          [] OTHER     -> ParseDate(<<1900, 1, 1>>)]

\* server.js:45-58; the result is Null or <<the instant the thunk yields>>
getTimeFrameDate(tf, t) ==
    LET key == OptToUpperCase(tf)
    IN  IF key \in DOMAIN timeFrameMap(t) THEN <<timeFrameMap(t)[key]>> ELSE Null

validTimeFrames == {Key1W, Key1M, Key3M, Key6M, Key1Y, Key2Y, KeyALL}

\* isValidTimeFrame without the toUpperCase: the comparison is case-sensitive
isValidTimeFrameCaseSensitive(tf) == tf \in validTimeFrames

\* server.js:60-63
isValidTimeFrame(tf) == OptToUpperCase(tf) \in validTimeFrames


-----------------------------------------------------------------------------
(* Array.prototype.sort with the comparator                                *)
(*     (a, b) => new Date(a.date) - new Date(b.date)                       *)

\* the comparator's result as sort reads it: a NaN result counts as +0
CompareDates(a, b) ==
    IF IsNaNDate(a.date) \/ IsNaNDate(b.date)
    THEN 0
    ELSE ParseDate(a.date) - ParseDate(b.date)

\* whether the comparator is a consistent comparator for the elements of s
\* (ECMAScript, Array.prototype.sort): only then is the sort order defined.
\* A NaN date compares 0 with every element, so the comparator is consistent
\* exactly when s holds no NaN date or all its valid dates are equal
ConsistentComparator(s) ==
    \/ \A i \in 1..Len(s) : ~IsNaNDate(s[i].date)
    \/ \A i, j \in 1..Len(s) :
          (~IsNaNDate(s[i].date) /\ ~IsNaNDate(s[j].date)) => s[i].date = s[j].date

\* item put behind every element of the sorted s that does not compare greater
RECURSIVE InsertByDate(_, _)
InsertByDate(item, s) ==
    IF s = <<>> THEN <<item>>
    ELSE IF CompareDates(s[Len(s)], item) <= 0 THEN Append(s, item)
    ELSE Append(InsertByDate(item, SubSeq(s, 1, Len(s) - 1)), s[Len(s)])

\* the stable sort of s (sort is stable since ES2019)
RECURSIVE StableSort(_)
StableSort(s) ==
    IF s = <<>> THEN <<>>
    ELSE InsertByDate(s[Len(s)], StableSort(SubSeq(s, 1, Len(s) - 1)))

Rearrangements(s) ==
    {[i \in 1..Len(s) |-> s[p[i]]] :
        p \in {q \in [1..Len(s) -> 1..Len(s)] : \A i, j \in 1..Len(s) : q[i] = q[j] => i = j}}

\* what s.sort(comparator) may leave in s: the stable sort when the comparator
\* is consistent, otherwise an implementation-defined rearrangement
SortOutcomes(s) ==
    IF ConsistentComparator(s) THEN {StableSort(s)} ELSE Rearrangements(s)

-----------------------------------------------------------------------------
(* filterByTimeFrame                                                       *)

\* the filter callback with > for >=: a record dated at the start instant is dropped
InWindowStrict(item, start) ==
    /\ ~IsNaNDate(item.date)
    /\ ParseDate(item.date) > start

\* server.js:76-79, the filter callback: a NaN date compares false
InWindow(item, start) ==
    /\ ~IsNaNDate(item.date)
    /\ ParseDate(item.date) >= start

\* server.js:65-81.  data is an array held by reference: the outcomes are
\* pairs of the returned array (ret) and what the call leaves in data (arr)
filterByTimeFrame(data, tf, t) ==
    IF Falsy(tf) \/ toUpperCase(tf) = KeyALL
    THEN {[ret |-> s, arr |-> s] : s \in SortOutcomes(data)}
    ELSE LET getStartDate == getTimeFrameDate(tf, t)
         IN  IF getStartDate = Null
             THEN {[ret |-> data, arr |-> data]}
             ELSE LET start == getStartDate[1]
                      kept  == SelectSeq(data, LAMBDA item : InWindow(item, start))
                  IN  {[ret |-> s, arr |-> data] : s \in SortOutcomes(kept)}

-----------------------------------------------------------------------------
(* calculateStatistics                                                     *)
(*                                                                         *)
(* The values are integers.  A field computed as Math.round(x * 100) / 100 *)
(* is carried as the integer Math.round(x * 100), i.e. in hundredths.      *)

\* Math.round(100 * num / den) for den > 0: the nearest integer, a tie going up
Round100(num, den) == (200 * num + den) \div (2 * den)

RECURSIVE SqrtSearch(_, _, _)
SqrtSearch(x, lo, hi) ==
    IF lo = hi THEN lo
    ELSE LET mid == (lo + hi + 1) \div 2
         IN  IF mid * mid <= x THEN SqrtSearch(x, mid, hi) ELSE SqrtSearch(x, lo, mid - 1)

\* the integer part of Math.sqrt(x), and Math.sqrt(x) rounded up
FloorSqrt(x) == SqrtSearch(x, 0, 46340)
CeilSqrt(x) == IF FloorSqrt(x) * FloorSqrt(x) = x THEN FloorSqrt(x) ELSE FloorSqrt(x) + 1

RECURSIVE Sum(_)
Sum(s) == IF s = <<>> THEN 0 ELSE s[1] + Sum(Tail(s))

RECURSIVE SumSquares(_)
SumSquares(s) == IF s = <<>> THEN 0 ELSE s[1] * s[1] + SumSquares(Tail(s))

RECURSIVE InsertNumber(_, _)
InsertNumber(v, s) ==
    IF s = <<>> THEN <<v>>
    ELSE IF s[Len(s)] - v <= 0 THEN Append(s, v)
    ELSE Append(InsertNumber(v, SubSeq(s, 1, Len(s) - 1)), s[Len(s)])

\* server.js:86, [...values].sort((a, b) => a - b)
RECURSIVE SortNumbers(_)
SortNumbers(s) ==
    IF s = <<>> THEN <<>>
    ELSE InsertNumber(s[Len(s)], SortNumbers(SubSeq(s, 1, Len(s) - 1)))

\* server.js:90-93, the median as the fraction num / den
Median(sorted) ==
    IF Len(sorted) % 2 = 0
    THEN [num |-> sorted[Len(sorted) \div 2] + sorted[Len(sorted) \div 2 + 1], den |-> 2]
    ELSE [num |-> sorted[Len(sorted) \div 2 + 1], den |-> 1]

\* the last value read after the sort instead of before it
LastValueOfSorted(vals) == SortNumbers(vals)[Len(vals)]

\* server.js:102, the latest value
LastValue(vals) == vals[Len(vals)]

\* server.js:103-104 and 120, Math.round(percentile * 100)
Percentile(vals) ==
    LET sorted    == SortNumbers(vals)
        lastValue == LastValue(vals)
        below     == Len(SelectSeq(sorted, LAMBDA val : val <= lastValue))
    IN  Round100(100 * below, Len(sorted))

\* Math.min(...values) and Math.max(...values)
MathMin(vals) == CHOOSE v \in Range(vals) : \A w \in Range(vals) : v <= w
MathMax(vals) == CHOOSE v \in Range(vals) : \A w \in Range(vals) : v >= w

\* server.js:86-122, the summary of a non-empty sequence.  With n the count,
\* the mean is sum / n and the standard deviation is Math.sqrt(dev) / n
Summary(vals) ==
    LET n   == Len(vals)
        sum == Sum(vals)
        dev == n * SumSquares(vals) - sum * sum
        med == Median(SortNumbers(vals))
    IN  [mean          |-> Round100(sum, n),
         median        |-> Round100(med.num, med.den),
         std_dev       |-> (FloorSqrt(40000 * dev) + n) \div (2 * n),
         min           |-> Round100(MathMin(vals), 1),
         max           |-> Round100(MathMax(vals), 1),
         plus_one_dev  |-> (200 * sum + FloorSqrt(40000 * dev) + n) \div (2 * n),
         minus_one_dev |-> (200 * sum - CeilSqrt(40000 * dev) + n) \div (2 * n),
         plus_two_dev  |-> (200 * sum + FloorSqrt(160000 * dev) + n) \div (2 * n),
         minus_two_dev |-> (200 * sum - CeilSqrt(160000 * dev) + n) \div (2 * n),
         percentile    |-> Percentile(vals),
         count         |-> n]

\* the guard off by one: a single value counts as no value
IsEmptyInputOffByOne(vals) == Len(vals) <= 1

\* server.js:84, the guard in front of every division by values.length
IsEmptyInput(vals) == Len(vals) = 0

\* server.js:83-123
calculateStatistics(vals) ==
    IF IsEmptyInput(vals) THEN Null ELSE Summary(vals)

-----------------------------------------------------------------------------
(* Requests and responses                                                  *)

PathRatios == "/api/stock/ratios"
PathPrice == "/api/stock/price"
PathMarketCap == "/api/stock/market-cap"

\* no response written yet
NoResponse == [status |-> 0]

\* `const { timeframe = "ALL" } = req.query`: the default replaces undefined only
TimeframeOrDefault(q) == IF q.timeframe = Undefined THEN KeyALL ELSE q.timeframe

\* one filterByTimeFrame invocation, as the handlers make it
Invocation(co_code, tf, t, o) ==
    [co_code |-> co_code, timeFrame |-> tf, now |-> t, ret |-> o.ret]

\* series[0]?.date and series[series.length - 1]?.date
PeriodInfo(series) ==
    [start_date  |-> IF Len(series) = 0 THEN Undefined ELSE series[1].date,
     end_date    |-> IF Len(series) = 0 THEN Undefined ELSE series[Len(series)].date,
     data_points |-> Len(series)]

\* item[type.toLowerCase()]
RatioField(item, type) ==
    CASE type = <<"p", "e">> -> item.pe
      [] type = <<"p", "b">> -> item.pb
      [] type = <<"p", "s">> -> item.ps

\* String.prototype.split(","), on a string given as a sequence of pieces
RECURSIVE Split(_)
Split(s) ==
    IF \A i \in 1..Len(s) : s[i] # ","
    THEN <<s>>
    ELSE LET i == CHOOSE j \in 1..Len(s) : s[j] = "," /\ \A k \in 1..(j - 1) : s[k] # ","
         IN  <<SubSeq(s, 1, i - 1)>> \o Split(SubSeq(s, i + 1, Len(s)))

\* String.prototype.trim
RECURSIVE Trim(_)
Trim(s) ==
    IF s # <<>> /\ s[1] = " " THEN Trim(Tail(s))
    ELSE IF s # <<>> /\ s[Len(s)] = " " THEN Trim(SubSeq(s, 1, Len(s) - 1))
    ELSE s

\* server.js:322
CodesList(co_codes) == [i \in 1..Len(Split(co_codes)) |-> Trim(Split(co_codes)[i])]

\* server.js:326-351, the loop over codesList: every way it can end, as
\* the map it leaves, the result and notFound lists and the invocations made
RECURSIVE MarketCapLoop(_, _, _, _)
MarketCapLoop(codesList, ohlc, tf, t) ==
    IF codesList = <<>>
    THEN {[ohlc |-> ohlc, result |-> <<>>, notFound |-> <<>>, selected |-> <<>>]}
    ELSE LET co_code == Head(codesList)
         IN  IF co_code \in DOMAIN ohlc
             THEN UNION {
                    {LET series == [i \in 1..Len(o.ret) |->
                                       [date |-> o.ret[i].date, mcap |-> o.ret[i].mcap]]
                     IN  [ohlc     |-> rest.ohlc,
                          result   |-> <<[co_code     |-> co_code,
                                          period_info |-> PeriodInfo(series),
                                          series      |-> series]>> \o rest.result,
                          notFound |-> rest.notFound,
                          selected |-> <<Invocation(co_code, tf, t, o)>>
                                          \o rest.selected]
                       : rest \in MarketCapLoop(Tail(codesList),
                                                [ohlc EXCEPT ![co_code] = o.arr], tf, t)}
                    : o \in filterByTimeFrame(ohlc[co_code], tf, t)}
             ELSE {[rest EXCEPT !.notFound = <<co_code>> \o @]
                    : rest \in MarketCapLoop(Tail(codesList), ohlc, tf, t)}

-----------------------------------------------------------------------------
(* The server                                                              *)

\* server.js:25-28 and 432-434: both files are read, then the server listens
loadData ==
    /\ pc = "loading"
    /\ ratios_by_co_code' = files.ratios
    /\ ohlc_by_co_code' = files.ohlc
    /\ pc' = "listening"
    /\ UNCHANGED <<files, now, req, res, nres, ran, selected,
                   values, statistics, timeFrame, startDate>>

\* a request arrives once the server listens; the middleware chain of a
\* request runs to its response before the next request is taken up
Receive(r) ==
    /\ pc = "listening"
    /\ req' = r
    /\ res' = NoResponse
    /\ nres' = 0
    /\ ran' = {}
    /\ selected' = <<>>
    /\ pc' = "validateTimeFrame"
    /\ UNCHANGED <<files, ratios_by_co_code, ohlc_by_co_code, now,
                   values, statistics, timeFrame, startDate>>

\* server.js:126-138
validateTimeFrame ==
    /\ pc = "validateTimeFrame"
    /\ ran' = ran \cup {"validateTimeFrame"}
    /\ IF ~Falsy(req.query.timeframe) /\ ~isValidTimeFrame(req.query.timeframe)
       THEN /\ res' = [status |-> 400,
                       error |-> "Invalid timeframe. Valid options: 1W, 1M, 3M, 6M, 1Y, 2Y, ALL",
                       received |-> req.query.timeframe]
            /\ nres' = nres + 1
            /\ pc' = "done"
       ELSE /\ pc' = "handler"
            /\ UNCHANGED <<res, nres>>
    /\ UNCHANGED <<files, ratios_by_co_code, ohlc_by_co_code, now, req, selected,
                   values, statistics, timeFrame, startDate>>

\* server.js:192-255.  No statement of the handlers throws on the requests and
\* records modelled (strings, records that are objects), so the catch branch
\* and its 500 are never taken
GetRatios ==
    /\ pc = "handler"
    /\ req.path = PathRatios
    /\ ran' = ran \cup {"handler"}
    /\ nres' = nres + 1
    /\ pc' = "done"
    /\ LET co_code   == req.query.co_code
           type      == req.query.type
           timeframe == TimeframeOrDefault(req.query)
       IN  IF Falsy(co_code) \/ Falsy(type)
           THEN /\ res' = [status |-> 400,
                           error |-> "Missing required parameters: co_code and type"]
                /\ UNCHANGED <<ratios_by_co_code, selected>>
           ELSE IF toLowerCase(type) \notin {<<"p", "e">>, <<"p", "b">>, <<"p", "s">>}
           THEN /\ res' = [status |-> 400,
                           error |-> "Invalid type. Must be pe, pb, or ps",
                           received |-> type]
                /\ UNCHANGED <<ratios_by_co_code, selected>>
           ELSE IF co_code \notin DOMAIN ratios_by_co_code
           THEN /\ res' = [status |-> 404,
                           error |-> "No data found for company code",
                           available_codes |-> DOMAIN ratios_by_co_code]
                /\ UNCHANGED <<ratios_by_co_code, selected>>
           ELSE \E o \in filterByTimeFrame(ratios_by_co_code[co_code], timeframe, now) :
                /\ ratios_by_co_code' = [ratios_by_co_code EXCEPT ![co_code] = o.arr]
                /\ selected' = Append(selected,
                       Invocation(co_code, timeframe, now, o))
                /\ IF Len(o.ret) = 0
                   THEN res' = [status |-> 404,
                                error |-> "No data found for the specified timeframe",
                                co_code |-> co_code,
                                timeframe |-> timeframe]
                   ELSE LET series == [i \in 1..Len(o.ret) |->
                                          [date  |-> o.ret[i].date,
                                           value |-> RatioField(o.ret[i], toLowerCase(type))]]
                            vals   == [i \in 1..Len(series) |-> series[i].value]
                        IN  res' = [status      |-> 200,
                                    co_code     |-> co_code,
                                    type        |-> toLowerCase(type),
                                    timeframe   |-> toUpperCase(timeframe),
                                    period_info |-> PeriodInfo(series),
                                    series      |-> series,
                                    statistics  |-> calculateStatistics(vals)]
    /\ UNCHANGED <<files, ohlc_by_co_code, now, req,
                   values, statistics, timeFrame, startDate>>

\* server.js:258-308
GetPrice ==
    /\ pc = "handler"
    /\ req.path = PathPrice
    /\ ran' = ran \cup {"handler"}
    /\ nres' = nres + 1
    /\ pc' = "done"
    /\ LET co_code   == req.query.co_code
           timeframe == TimeframeOrDefault(req.query)
       IN  IF Falsy(co_code)
           THEN /\ res' = [status |-> 400,
                           error |-> "Missing required parameter: co_code"]
                /\ UNCHANGED <<ohlc_by_co_code, selected>>
           ELSE IF co_code \notin DOMAIN ohlc_by_co_code
           THEN /\ res' = [status |-> 404,
                           error |-> "No data found for company code",
                           available_codes |-> DOMAIN ohlc_by_co_code]
                /\ UNCHANGED <<ohlc_by_co_code, selected>>
           ELSE \E o \in filterByTimeFrame(ohlc_by_co_code[co_code], timeframe, now) :
                /\ ohlc_by_co_code' = [ohlc_by_co_code EXCEPT ![co_code] = o.arr]
                /\ selected' = Append(selected,
                       Invocation(co_code, timeframe, now, o))
                /\ IF Len(o.ret) = 0
                   THEN res' = [status |-> 404,
                                error |-> "No data found for the specified timeframe",
                                co_code |-> co_code,
                                timeframe |-> timeframe]
                   ELSE LET series == [i \in 1..Len(o.ret) |->
                                          [date  |-> o.ret[i].date,
                                           close |-> o.ret[i].close]]
                        IN  res' = [status      |-> 200,
                                    co_code     |-> co_code,
                                    timeframe   |-> toUpperCase(timeframe),
                                    period_info |-> PeriodInfo(series),
                                    series      |-> series]
    /\ UNCHANGED <<files, ratios_by_co_code, now, req,
                   values, statistics, timeFrame, startDate>>

\* server.js:311-370
GetMarketCap ==
    /\ pc = "handler"
    /\ req.path = PathMarketCap
    /\ ran' = ran \cup {"handler"}
    /\ nres' = nres + 1
    /\ pc' = "done"
    /\ LET co_codes  == req.query.co_codes
           timeframe == TimeframeOrDefault(req.query)
       IN  IF Falsy(co_codes)
           THEN /\ res' = [status |-> 400,
                           error |-> "Missing required parameter: co_codes"]
                /\ UNCHANGED <<ohlc_by_co_code, selected>>
           ELSE \E end \in MarketCapLoop(CodesList(co_codes), ohlc_by_co_code, timeframe, now) :
                /\ ohlc_by_co_code' = end.ohlc
                /\ selected' = selected \o end.selected
                /\ res' = IF Len(end.notFound) > 0
                          THEN [status    |-> 200,
                                timeframe |-> toUpperCase(timeframe),
                                data      |-> end.result,
                                warnings  |-> [codes_not_found |-> end.notFound,
                                               available_codes |-> DOMAIN ohlc_by_co_code]]
                          ELSE [status    |-> 200,
                                timeframe |-> toUpperCase(timeframe),
                                data      |-> end.result]
    /\ UNCHANGED <<files, ratios_by_co_code, now, req,
                   values, statistics, timeFrame, startDate>>

\* the request is over
Close ==
    /\ pc = "done"
    /\ pc' = "listening"
    /\ req' = Null
    /\ res' = NoResponse
    /\ nres' = 0
    /\ ran' = {}
    /\ selected' = <<>>
    /\ UNCHANGED <<files, ratios_by_co_code, ohlc_by_co_code, now,
                   values, statistics, timeFrame, startDate>>

\* time passes
Tick(t) ==
    /\ t > now
    /\ now' = t
    /\ UNCHANGED <<files, ratios_by_co_code, ohlc_by_co_code, pc, req, res, nres, ran,
                   selected, values, statistics, timeFrame, startDate>>

-----------------------------------------------------------------------------
(* Inputs                                                                  *)

\* the instant of 00:00 on y-m-d plus h hours
At(y, m, d, h) == DaysFromCivil(y, m, d) * HoursPerDay + h

\* the clock of the server and selector runs: a mid-month midnight and a
\* month end
Clock == {At(2024, 5, 15, 0), At(2024, 5, 31, 10)}

\* the date fields of the records: long ago, the day one month before the
\* first clock value, the day before it; and a record without a date
DateFields == {<<2021, 1, 1>>, <<2024, 4, 15>>, <<2024, 5, 14>>, Undefined}

RatioRecords ==
    {[date |-> d, pe |-> 10, pb |-> 2, ps |-> 3] : d \in DateFields}
        \cup {[date |-> <<2024, 4, 15>>, pe |-> 20, pb |-> 2, ps |-> 3]}

OhlcRecords ==
    {[date |-> d, close |-> 10, mcap |-> 500] : d \in DateFields}
        \cup {[date |-> <<2024, 4, 15>>, close |-> 20, mcap |-> 700]}

SeriesUpTo(records, n) == UNION {[1..k -> records] : k \in 0..n}

\* the timeframe query parameter: absent, empty, the recognized tokens in
\* either case, an unrecognized token
TimeFrames ==
    {Undefined, EmptyString, KeyALL, <<"a", "l", "l">>, Key1W, <<"1", "m">>, Key3M,
     Key6M, Key1Y, <<"2", "y">>, <<"5", "Y">>}

RatiosCode == <<"38716">>
OhlcCode == <<"13673">>
UnknownCode == <<"5020">>

Requests ==
    {[path |-> PathRatios, query |-> [co_code |-> c, type |-> ty, timeframe |-> tf]] :
        c \in {Undefined, RatiosCode, UnknownCode},
        ty \in {Undefined, <<"P", "E">>, <<"z", "z">>},
        tf \in TimeFrames}
    \cup
    {[path |-> PathPrice, query |-> [co_code |-> c, timeframe |-> tf]] :
        c \in {Undefined, OhlcCode, UnknownCode},
        tf \in TimeFrames}
    \cup
    {[path |-> PathMarketCap, query |-> [co_codes |-> cs, timeframe |-> tf]] :
        cs \in {Undefined, <<"13673">>, <<"13673", ",", " ", "5020">>},
        tf \in TimeFrames}

\* the values handed to calculateStatistics
StatValues == {10, 20, 30, 40}

\* the clock of the resolver runs: noon of every day of 2023 and 2024
ResolverClock ==
    {d * HoursPerDay + 12 : d \in DaysFromCivil(2023, 1, 1)..DaysFromCivil(2024, 12, 31)}

-----------------------------------------------------------------------------
(* The server: the data files are loaded, then requests are served         *)

Init ==
    /\ files \in {[ratios |-> [c \in {RatiosCode} |-> a], ohlc |-> [c \in {OhlcCode} |-> b]] :
                    a \in SeriesUpTo(RatioRecords, MaxRecords),
                    b \in SeriesUpTo(OhlcRecords, MaxRecords)}
    /\ Len(files.ratios[RatiosCode]) + Len(files.ohlc[OhlcCode]) <= MaxRecords
    /\ ratios_by_co_code = <<>>
    /\ ohlc_by_co_code = <<>>
    /\ now \in Clock
    /\ pc = "loading"
    /\ req = Null
    /\ res = NoResponse
    /\ nres = 0
    /\ ran = {}
    /\ selected = <<>>
    /\ values = <<>>
    /\ statistics = Null
    /\ timeFrame = Undefined
    /\ startDate = Null

Next ==
    \/ loadData
    \/ \E r \in Requests : Receive(r)
    \/ validateTimeFrame
    \/ GetRatios
    \/ GetPrice
    \/ GetMarketCap
    \/ Close
    \/ \E t \in Clock : Tick(t)

Spec == Init /\ [][Next]_vars

-----------------------------------------------------------------------------
(* The window selector alone: filterByTimeFrame called on a loaded series  *)
(* with any timeframe argument                                             *)

CallFilterByTimeFrame(co_code, tf) ==
    /\ pc = "selector"
    /\ \E o \in filterByTimeFrame(ratios_by_co_code[co_code], tf, now) :
        /\ ratios_by_co_code' = [ratios_by_co_code EXCEPT ![co_code] = o.arr]
        /\ selected' = <<Invocation(co_code, tf, now, o)>>
    /\ pc' = "returned"
    /\ UNCHANGED <<files, ohlc_by_co_code, now, req, res, nres, ran,
                   values, statistics, timeFrame, startDate>>

\* the caller drops the returned array
DropResult ==
    /\ pc = "returned"
    /\ selected' = <<>>
    /\ pc' = "selector"
    /\ UNCHANGED <<files, ratios_by_co_code, ohlc_by_co_code, now, req, res, nres, ran,
                   values, statistics, timeFrame, startDate>>

InitSelector ==
    /\ files \in {[ratios |-> [c \in {RatiosCode} |-> a], ohlc |-> <<>>] :
                    a \in SeriesUpTo(RatioRecords, MaxSeries)}
    /\ ratios_by_co_code = files.ratios
    /\ ohlc_by_co_code = files.ohlc
    /\ now \in Clock
    /\ pc = "selector"
    /\ req = Null
    /\ res = NoResponse
    /\ nres = 0
    /\ ran = {}
    /\ selected = <<>>
    /\ values = <<>>
    /\ statistics = Null
    /\ timeFrame = Undefined
    /\ startDate = Null

NextSelector ==
    \/ \E co_code \in DOMAIN ratios_by_co_code, tf \in TimeFrames :
          CallFilterByTimeFrame(co_code, tf)
    \/ DropResult
    \/ \E t \in Clock : Tick(t)

SpecSelector == InitSelector /\ [][NextSelector]_vars

-----------------------------------------------------------------------------
(* The resolver alone: getTimeFrameDate and the thunk it returns           *)

ResolveTimeFrame ==
    /\ pc = "resolver"
    /\ startDate' = getTimeFrameDate(timeFrame, now)
    /\ pc' = "resolved"
    /\ UNCHANGED <<files, ratios_by_co_code, ohlc_by_co_code, now, req, res, nres, ran,
                   selected, values, statistics, timeFrame>>

InitResolver ==
    /\ files = [ratios |-> <<>>, ohlc |-> <<>>]
    /\ ratios_by_co_code = <<>>
    /\ ohlc_by_co_code = <<>>
    /\ now \in ResolverClock
    /\ pc = "resolver"
    /\ req = Null
    /\ res = NoResponse
    /\ nres = 0
    /\ ran = {}
    /\ selected = <<>>
    /\ values = <<>>
    /\ statistics = Null
    /\ timeFrame \in TimeFrames
    /\ startDate = Null

NextResolver == ResolveTimeFrame

SpecResolver == InitResolver /\ [][NextResolver]_vars

-----------------------------------------------------------------------------
(* The statistics engine alone                                             *)

CallCalculateStatistics ==
    /\ pc = "statistics"
    /\ statistics' = calculateStatistics(values)
    /\ pc' = "returned"
    /\ UNCHANGED <<files, ratios_by_co_code, ohlc_by_co_code, now, req, res, nres, ran,
                   selected, values, timeFrame, startDate>>

InitStatistics ==
    /\ files = [ratios |-> <<>>, ohlc |-> <<>>]
    /\ ratios_by_co_code = <<>>
    /\ ohlc_by_co_code = <<>>
    /\ now = At(2024, 5, 15, 0)
    /\ pc = "statistics"
    /\ req = Null
    /\ res = NoResponse
    /\ nres = 0
    /\ ran = {}
    /\ selected = <<>>
    /\ values \in SeriesUpTo(StatValues, MaxLen)
    /\ statistics = Null
    /\ timeFrame = Undefined
    /\ startDate = Null

NextStatistics == CallCalculateStatistics

SpecStatistics == InitStatistics /\ [][NextStatistics]_vars

-----------------------------------------------------------------------------
(* Properties                                                              *)

\* every record of s has a date that parses
WellFormed(s) == \A i \in 1..Len(s) : ~IsNaNDate(s[i].date)

\* the dates of s never decrease from one record to the next
NonDecreasing(s) ==
    \A i, j \in 1..Len(s) : i < j => ParseDate(s[i].date) <= ParseDate(s[j].date)

\* how often record r occurs in s
Count(s, r) == Cardinality({i \in 1..Len(s) : s[i] = r})

RelativeKeys == {Key1W, Key1M, Key3M, Key6M, Key1Y, Key2Y}

\* the start instant a recognized relative token resolves to at instant t
ResolvedStart(tf, t) == timeFrameMap(t)[toUpperCase(tf)]

\* C1: whatever the timeframe argument (absent, ALL, a relative token, an
\* unrecognized token), the sequence filterByTimeFrame returns for a series
\* of dated records is sorted by date in non-decreasing order.
C1_OutputSorted ==
    \A i \in 1..Len(selected) :
        WellFormed(files.ratios[selected[i].co_code]) => NonDecreasing(selected[i].ret)

\* C2: once loaded, the company series of ratios_by_co_code and
\* ohlc_by_co_code stay exactly as loaded, records and order, whatever
\* requests are served.
C2_SeriesAsLoaded ==
    (/\ pc # "loading"
     /\ WellFormed(files.ratios[RatiosCode])
     /\ WellFormed(files.ohlc[OhlcCode]))
        => (ratios_by_co_code = files.ratios /\ ohlc_by_co_code = files.ohlc)

\* C3: what filterByTimeFrame returns for a company's series and a timeframe
\* token at a given instant does not depend on the calls served before: it
\* is what the call returns on the series as loaded.
C3_HistoryIndependent ==
    \A i \in 1..Len(selected) :
        WellFormed(files.ratios[selected[i].co_code]) =>
            selected[i].ret \in
                {o.ret : o \in filterByTimeFrame(files.ratios[selected[i].co_code],
                                                 selected[i].timeFrame, selected[i].now)}

\* C4: for a recognized relative token (in either letter case) every record
\* of the series whose date is >= the resolved start instant occurs in the
\* output exactly as often as in the series, and no other record occurs.
C4_WindowMembership ==
    \A i \in 1..Len(selected) :
        LET inv    == selected[i]
            series == ratios_by_co_code[inv.co_code]
        IN  (inv.timeFrame # Undefined /\ toUpperCase(inv.timeFrame) \in RelativeKeys) =>
                \A r \in Range(series) \cup Range(inv.ret) :
                    Count(inv.ret, r) =
                        IF /\ IsDateString(r.date)
                           /\ ParseDate(r.date) >= ResolvedStart(inv.timeFrame, inv.now)
                        THEN Count(series, r)
                        ELSE 0

\* a lower-case relative token selected part of a series, a record dated
\* exactly at the start instant among the kept ones
C4_Witness ==
    \E i \in 1..Len(selected) :
        /\ pc = "returned"
        /\ selected[i].timeFrame = <<"1", "m">>
        /\ Len(selected[i].ret) >= 1
        /\ Len(selected[i].ret) < Len(ratios_by_co_code[selected[i].co_code])
        /\ \E k \in 1..Len(selected[i].ret) :
              ParseDate(selected[i].ret[k].date)
                  = ResolvedStart(selected[i].timeFrame, selected[i].now)

\* the calendar month of instant t, counted from year 0
MonthNumber(t) == getFullYear(t) * 12 + getMonth(t)

\* C5: the start instant of 1M lies in the calendar month immediately
\* before the month of 'now', on every day of the month 'now' may fall on.
C5_PriorMonth ==
    (pc = "resolved" /\ timeFrame # Undefined /\ toUpperCase(timeFrame) = Key1M) =>
        MonthNumber(startDate[1]) = MonthNumber(now) - 1

\* the number of values that are <= the last value of the sequence as given
AtMostLast(vals) == Cardinality({i \in 1..Len(vals) : vals[i] <= vals[Len(vals)]})

\* C6 as claimed: percentile equals 100 * (values <= the last value) / count.
C6_PercentileExact ==
    (pc = "returned" /\ Len(values) > 0) =>
        statistics.percentile * Len(values) = 100 * (100 * AtMostLast(values))

\* C6 as amended: percentile is 100 * (values <= the last value of the
\* unsorted input) / count rounded to two decimals, i.e. in hundredths the
\* integer nearest to 10000 * k / count, a tie going up.
C6_PercentileRounded ==
    (pc = "returned" /\ Len(values) > 0) =>
        LET n == Len(values)
            k == AtMostLast(values)
        IN  /\ 2 * n * statistics.percentile <= 20000 * k + n
            /\ 20000 * k + n < 2 * n * (statistics.percentile + 1)

\* three values, the last the smallest but for a tie: 66.67
C6_Witness ==
    /\ pc = "returned"
    /\ Len(values) = 3
    /\ values[3] # MathMax(values)
    /\ statistics.percentile = 6667

\* C7: the result is null exactly for the empty sequence, and a summary of
\* a non-empty sequence counts all its values (the divisor is never 0).
C7_NullIffEmpty ==
    pc = "returned" =>
        /\ statistics = Null <=> Len(values) = 0
        /\ statistics # Null => (statistics.count = Len(values) /\ statistics.count > 0)

\* the empty sequence was summarized
C7_Witness ==
    /\ pc = "returned"
    /\ values = <<>>
    /\ statistics = Null

\* the series a handler invocation selected from, as the map now holds it
SeriesOf(inv) ==
    IF req.path = PathRatios
    THEN ratios_by_co_code[inv.co_code]
    ELSE ohlc_by_co_code[inv.co_code]

\* C8: on each of the three stock endpoints, a selection that comes out
\* empty for a company of the dataset (here: one with dated records, all of
\* them outside the window) is answered with a not-found outcome.
C8_EmptySelectionNotFound ==
    pc = "done" =>
        \A i \in 1..Len(selected) :
            (/\ Len(SeriesOf(selected[i])) > 0
             /\ WellFormed(SeriesOf(selected[i]))
             /\ Len(selected[i].ret) = 0) => res.status = 404

\* C9: a request with a timeframe token outside the recognized set (in any
\* letter case) is answered 400 by validateTimeFrame and neither the handler
\* nor filterByTimeFrame runs; a request with a recognized or absent token
\* reaches the handler; a request gets exactly one response.
C9_ValidationGate ==
    LET tf       == req.query.timeframe
        absent   == tf = Undefined \/ tf = EmptyString
        accepted == absent \/ toUpperCase(tf) \in
                        {<<"1", "W">>, <<"1", "M">>, <<"3", "M">>, <<"6", "M">>,
                         <<"1", "Y">>, <<"2", "Y">>, <<"A", "L", "L">>}
    IN  /\ pc \in {"validateTimeFrame", "handler"} => nres = 0
        /\ pc = "handler" => accepted
        /\ pc = "done" =>
            /\ nres = 1
            /\ accepted => "handler" \in ran
            /\ ~accepted => (/\ res.status = 400
                             /\ ran = {"validateTimeFrame"}
                             /\ selected = <<>>)

\* an unrecognized token was turned away by the middleware
C9_Witness ==
    /\ pc = "done"
    /\ req.query.timeframe = <<"5", "Y">>
    /\ res.status = 400
    /\ ran = {"validateTimeFrame"}

\* C10: a request that selects from a series holding a record without a
\* date is not answered with a success.
C10_MalformedReported ==
    pc = "done" =>
        \A i \in 1..Len(selected) :
            ~WellFormed(SeriesOf(selected[i])) => res.status # 200

=============================================================================
